---- MODULE Spec2Model ----
(***************************************************************************)
(* Model of vite-plugin-es-toolkit (src/src/index.ts): the transform hook  *)
(* that rewrites lodash imports into es-toolkit/compat imports.            *)
(*                                                                         *)
(* A JavaScript string is a sequence of one-character strings.  The three  *)
(* regular expressions are matched character by character, and the string *)
(* methods the code calls (includes, split, trim, match, replace) are      *)
(* operators over such sequences.                                          *)
(***************************************************************************)
EXTENDS Integers, Sequences, FiniteSets, TLC

VARIABLES
    input,                  \* structure of the file handed to transform (history variable)
    src,                    \* transform's argument
    srcWithReplacedImports, \* the local variable of transform
    pc,                     \* position inside transform
    warnings,               \* console.warn calls so far, each tagged with the pass that made it
    passes,                 \* the replace passes that have run (history variable)
    result,                 \* what the call produced
    run,                    \* 1: first call on the file, 2: call on the first call's output
    token,                  \* argument of parseNamedImport (parser specification)
    stage,                  \* position of the parser specification
    parsed,                 \* value of parseNamedImport(token)
    rendered                \* value of renderNamedImport(parsed) / of the list handler

vars == <<input, src, srcWithReplacedImports, pc, warnings, passes, result, run,
          token, stage, parsed, rendered>>

---------------------------------------------------------------------------
(* Strings *)

\* A string literal as a JavaScript string value.
Chars(s) == [i \in 1..Len(s) |-> SubSeq(s, i, i)]

\* \w of the regular expressions
WordChar ==
    { Chars("abcdefghijklmnopqrstuvwxyzABCDEFGHIJKLMNOPQRSTUVWXYZ0123456789_")[i] : i \in 1..63 }

\* \s of the regular expressions, and the characters String.prototype.trim strips
SpaceChar == {" ", "\t", "\n", "\r", "\f"}

\* ['"] of the regular expressions
QuoteChar == {"'", "\""}

\* [\w( as \w)\s,] of namedImportsRegex: a character class, not a group
NamedListChar == WordChar \cup SpaceChar \cup {"(", ")", ","}

\* s has the literal lit at position i
LitAt(s, i, lit) ==
    /\ i >= 1
    /\ i + Len(lit) - 1 <= Len(s)
    /\ SubSeq(s, i, i + Len(lit) - 1) = lit

\* a greedy X+ / X* over a character class: the first position from i on whose
\* character is outside the class
RECURSIVE SkipClass(_, _, _)
SkipClass(s, i, class) ==
    IF i <= Len(s) /\ s[i] \in class THEN SkipClass(s, i + 1, class) ELSE i

\* the last position up to i whose character is outside the class (0 if none)
RECURSIVE SkipClassBack(_, _, _)
SkipClassBack(s, i, class) ==
    IF i >= 1 /\ s[i] \in class THEN SkipClassBack(s, i - 1, class) ELSE i

\* the least element of a non-empty set of positions
Least(S) == CHOOSE x \in S : \A y \in S : x <= y

\* the first of the positions in starts that is at or after i, 0 when none is
FirstFrom(starts, i) ==
    LET later == {j \in starts : j >= i}
    IN  IF later = {} THEN 0 ELSE Least(later)

\* String.prototype.indexOf, 1-based, 0 when absent
IndexOf(s, sub, i) ==
    FirstFrom({j \in 1..Len(s) : LitAt(s, j, sub)}, i)

\* String.prototype.includes
Includes(s, sub) == IndexOf(s, sub, 1) # 0

\* String.prototype.split with a non-empty string separator
RECURSIVE Split(_, _)
Split(s, sep) ==
    LET k == IndexOf(s, sep, 1)
    IN  IF k = 0 THEN <<s>>
        ELSE <<SubSeq(s, 1, k - 1)>> \o Split(SubSeq(s, k + Len(sep), Len(s)), sep)

TrimIdentity(s) == s

\* String.prototype.trim
Trim(s) ==
    SubSeq(s, SkipClass(s, 1, SpaceChar), SkipClassBack(s, Len(s), SpaceChar))

\* Array.prototype.join
RECURSIVE Join(_, _)
Join(ss, sep) ==
    IF ss = <<>> THEN <<>>
    ELSE IF Len(ss) = 1 THEN ss[1]
    ELSE ss[1] \o sep \o Join(Tail(ss), sep)

---------------------------------------------------------------------------
(* Support classifier *)

\* Object.keys(esToolkitCompat): the exported names of es-toolkit/compat.  The
\* package is outside the repository; these names stand for it.  `every` and
\* `unknownFn` are not in it.
supportedFunctions == { Chars("isEqual"), Chars("map"), Chars("pick") }

isSupportedFunction(name) == name \in supportedFunctions

isUnsupportedFunction(name) == ~isSupportedFunction(name)

\* console.warn(`Unsupported lodash function${...}: ${names.join(', ')}`)
warnUnsupportedFunction(names) ==
    Chars("Unsupported lodash function")
        \o (IF Len(names) > 1 THEN Chars("s") ELSE <<>>)
        \o Chars(": ") \o Join(names, Chars(", "))

---------------------------------------------------------------------------
(* Named-import parser and renderer *)

InvalidNamedImport == [error |-> "Invalid named import"]

IsError(v) == "error" \in DOMAIN v

parseNamedImportNoCheck(namedImportName) ==
    LET pieces == Split(namedImportName, Chars(" as "))
        actualName == pieces[1]
        customName == IF Len(pieces) >= 2 THEN pieces[2] ELSE <<>>
    IN  [actualName |-> actualName,
         customName |-> IF customName # <<>> THEN customName ELSE actualName]

\* const [actualName, customName] = namedImportName.split(' as ')
parseNamedImport(namedImportName) ==
    LET pieces == Split(namedImportName, Chars(" as "))
        actualName == pieces[1]
        customName == IF Len(pieces) >= 2 THEN pieces[2] ELSE <<>>
    IN  IF actualName = <<>> THEN InvalidNamedImport
        ELSE [actualName |-> actualName,
              customName |-> IF customName # <<>> THEN customName ELSE actualName]

renderActualNameOnly(namedImport) == namedImport.actualName

renderNamedImport(namedImport) ==
    IF namedImport.actualName = namedImport.customName
    THEN namedImport.actualName
    ELSE namedImport.actualName \o Chars(" as ") \o namedImport.customName

renderNamedImportsReversed(namedImports) ==
    Join([k \in 1..Len(namedImports) |->
             renderNamedImport(namedImports[Len(namedImports) + 1 - k])], Chars(", "))

renderNamedImports(namedImports) ==
    Join([k \in 1..Len(namedImports) |-> renderNamedImport(namedImports[k])], Chars(", "))

---------------------------------------------------------------------------
(* The three regular expressions.  Every quantifier is followed by something *)
(* its class excludes, so the greedy match is the only candidate at a start  *)
(* position.  A match is [ok, next, ...groups]; next is the position after.  *)

NoMatch == [ok |-> FALSE]

\* \s+from\s+['"]lodash at position i: the position after it, 0 when absent
MatchFromLodash(s, i) ==
    LET a == SkipClass(s, i, SpaceChar)
        b == a + 4
        c == SkipClass(s, b, SpaceChar)
    IN  IF /\ a > i
           /\ LitAt(s, a, Chars("from"))
           /\ c > b
           /\ c <= Len(s)
           /\ s[c] \in QuoteChar
           /\ LitAt(s, c + 1, Chars("lodash"))
        THEN c + 7
        ELSE 0

\* import\s+(\w+) at position i: [ok, next, name]
MatchImportName(s, i) ==
    LET a == i + 6
        b == SkipClass(s, a, SpaceChar)
        c == SkipClass(s, b, WordChar)
    IN  IF LitAt(s, i, Chars("import")) /\ b > a /\ c > b
        THEN [ok |-> TRUE, next |-> c, name |-> SubSeq(s, b, c - 1)]
        ELSE NoMatch

\* /import\s+(\w+)\s+from\s+['"]lodash['"]/gm at position i
defaultImportRegex(s, i) ==
    LET n == MatchImportName(s, i)
        e == IF n.ok THEN MatchFromLodash(s, n.next) ELSE 0
    IN  IF e # 0 /\ e <= Len(s) /\ s[e] \in QuoteChar
        THEN [ok |-> TRUE, next |-> e + 1, defaultImportName |-> n.name]
        ELSE NoMatch

\* /import\s+\{\s*([\w( as \w)\s,]+)\s*\}\s+from\s+['"]lodash['"]/gm at position i.
\* The class holds \s, so \s* and the class compete for the blanks after the
\* brace: \s* takes them all, and gives one back when nothing else is left.
namedImportsRegex(s, i) ==
    LET a == i + 6
        b == SkipClass(s, a, SpaceChar)
        c == SkipClass(s, b + 1, SpaceChar)
        d == SkipClass(s, b + 1, NamedListChar)
        g == IF c < d THEN c ELSE d - 1
        e == IF d <= Len(s) /\ s[d] = "}" THEN MatchFromLodash(s, d + 1) ELSE 0
    IN  IF /\ LitAt(s, i, Chars("import"))
           /\ b > a
           /\ b <= Len(s)
           /\ s[b] = "{"
           /\ d > b + 1
           /\ e # 0
           /\ e <= Len(s)
           /\ s[e] \in QuoteChar
        THEN [ok |-> TRUE, next |-> e + 1, rawNamedImportNames |-> SubSeq(s, g, d - 1)]
        ELSE NoMatch

\* /import\s+(\w+)\s+from\s+['"]lodash\/(\w+)(\.js)?['"]/gm at position i
defaultSingleImportRegex(s, i) ==
    LET n == MatchImportName(s, i)
        e == IF n.ok THEN MatchFromLodash(s, n.next) ELSE 0
        w == SkipClass(s, e + 1, WordChar)
        q == IF LitAt(s, w, Chars(".js")) /\ w + 3 <= Len(s) /\ s[w + 3] \in QuoteChar
             THEN w + 3
             ELSE w
    IN  IF /\ e # 0
           /\ e <= Len(s)
           /\ s[e] = "/"
           /\ w > e + 1
           /\ q <= Len(s)
           /\ s[q] \in QuoteChar
        THEN [ok |-> TRUE, next |-> q + 1,
              customNamedImportName |-> n.name,
              actualNamedImportName |-> SubSeq(s, e + 1, w - 1)]
        ELSE NoMatch

\* new RegExp(`\\b${name}\\.\\w+`, 'g') at position i
UsageRegex(s, name, i) ==
    LET dot == i + Len(name)
        e == SkipClass(s, dot + 1, WordChar)
    IN  IF /\ i = 1 \/ s[i - 1] \notin WordChar
           /\ LitAt(s, i, name)
           /\ dot <= Len(s)
           /\ s[dot] = "."
           /\ e > dot + 1
        THEN [ok |-> TRUE, next |-> e]
        ELSE NoMatch

\* the matches of a global regular expression: the leftmost one from i on,
\* then the leftmost one after it, and so on (starts: where a match can begin)
RECURSIVE UsagesFrom(_, _, _, _)
UsagesFrom(s, name, i, starts) ==
    LET j == FirstFrom(starts, i)
    IN  IF j = 0 THEN <<>>
        ELSE LET m == UsageRegex(s, name, j)
             IN  <<SubSeq(s, j, m.next - 1)>> \o UsagesFrom(s, name, m.next, starts)

\* s.match(new RegExp(`\\b${name}\\.\\w+`, 'g')): the matched substrings in
\* order (<<>> stands for null)
MatchUsages(s, name) ==
    UsagesFrom(s, name, 1, {j \in 1..Len(s) : UsageRegex(s, name, j).ok})

---------------------------------------------------------------------------
(* The three replace callbacks.  Each yields [code, warns, error]: the        *)
(* replacement text, the console.warn calls it made, whether it threw.        *)

Replacement(code, warns) == [code |-> code, warns |-> warns, error |-> FALSE]

Warn(pass, names) == [pass |-> pass, names |-> names, text |-> warnUnsupportedFunction(names)]

\* usage.split('.')[1] || ''
UsedFunction(usage) ==
    LET pieces == Split(usage, Chars("."))
    IN  IF Len(pieces) >= 2 THEN pieces[2] ELSE <<>>

NamespaceImportText(defaultImportName) ==
    Chars("import { * as ") \o defaultImportName \o Chars(" } from 'es-toolkit/compat'")

DefaultImportCallbackNoCheck(text, match, defaultImportName) ==
    IF MatchUsages(text, defaultImportName) = <<>> THEN Replacement(match, <<>>)
    ELSE Replacement(NamespaceImportText(defaultImportName), <<>>)

DefaultImportCallbackKeep(text, match, defaultImportName) ==
    LET globalImportUsages == MatchUsages(text, defaultImportName)
        usedFunctions ==
            [k \in 1..Len(globalImportUsages) |-> UsedFunction(globalImportUsages[k])]
        unsupportedFunctions == SelectSeq(usedFunctions, isUnsupportedFunction)
    IN  IF Len(unsupportedFunctions) > 0
        THEN Replacement(match, <<Warn("default", unsupportedFunctions)>>)
        ELSE Replacement(match, <<>>)

\* (match, defaultImportName) => ...; text is srcWithReplacedImports as the
\* callback reads it, which is still src while the first replace runs
DefaultImportCallback(text, match, defaultImportName) ==
    LET globalImportUsages == MatchUsages(text, defaultImportName)
        usedFunctions ==
            [k \in 1..Len(globalImportUsages) |-> UsedFunction(globalImportUsages[k])]
        unsupportedFunctions == SelectSeq(usedFunctions, isUnsupportedFunction)
    IN  IF globalImportUsages = <<>> THEN Replacement(match, <<>>)
        ELSE IF Len(unsupportedFunctions) > 0
        THEN Replacement(match, <<Warn("default", unsupportedFunctions)>>)
        ELSE Replacement(NamespaceImportText(defaultImportName), <<>>)

NonEmpty(param) == param # <<>>

\* rawNamedImportNames.split(',').map((param) => param.trim()).filter(Boolean)
NamedImportNames(rawNamedImportNames) ==
    LET params == Split(rawNamedImportNames, Chars(","))
    IN  SelectSeq([k \in 1..Len(params) |-> Trim(params[k])], NonEmpty)

\* unsupportedFunctions.map(({ actualName }) => actualName)
ActualNames(namedImports) ==
    [k \in 1..Len(namedImports) |-> namedImports[k].actualName]

IsSupportedImport(namedImport) == isSupportedFunction(namedImport.actualName)

IsUnsupportedImport(namedImport) == isUnsupportedFunction(namedImport.actualName)

SplitImportTextSwapped(supported, unsupported) ==
    Chars("import { ") \o renderNamedImports(unsupported)
        \o Chars(" } from 'lodash';import { ")
        \o renderNamedImports(supported) \o Chars(" } from 'es-toolkit/compat'")

SplitImportText(supported, unsupported) ==
    Chars("import { ") \o renderNamedImports(supported)
        \o Chars(" } from 'es-toolkit/compat';import { ")
        \o renderNamedImports(unsupported) \o Chars(" } from 'lodash'")

CompatImportText(namedImports) ==
    Chars("import { ") \o renderNamedImports(namedImports)
        \o Chars(" } from 'es-toolkit/compat'")

\* lines 140-159: the callback from the parsed names on
RewriteNamedImports(match, namedImportNames) ==
    LET parsedNamedImportNames ==
            [k \in 1..Len(namedImportNames) |-> parseNamedImport(namedImportNames[k])]
        currentSupportedFunctions == SelectSeq(parsedNamedImportNames, IsSupportedImport)
        unsupportedFunctions == SelectSeq(parsedNamedImportNames, IsUnsupportedImport)
    IN  IF \E k \in 1..Len(parsedNamedImportNames) : IsError(parsedNamedImportNames[k])
        THEN [code |-> <<>>, warns |-> <<>>, error |-> TRUE]
        ELSE IF Len(unsupportedFunctions) > 0
        THEN IF Len(currentSupportedFunctions) = 0
             THEN Replacement(match,
                      <<Warn("named", ActualNames(unsupportedFunctions))>>)
             ELSE Replacement(SplitImportText(currentSupportedFunctions, unsupportedFunctions),
                      <<Warn("named", ActualNames(unsupportedFunctions))>>)
        ELSE Replacement(CompatImportText(currentSupportedFunctions), <<>>)

\* (match, rawNamedImportNames) => ...
NamedImportsCallback(match, rawNamedImportNames) ==
    RewriteNamedImports(match, NamedImportNames(rawNamedImportNames))

SingleImportTextNoRename(customNamedImportName, actualNamedImportName) ==
    Chars("import { ") \o actualNamedImportName \o Chars(" } from 'es-toolkit/compat'")

SingleImportText(customNamedImportName, actualNamedImportName) ==
    IF actualNamedImportName = customNamedImportName
    THEN Chars("import { ") \o actualNamedImportName \o Chars(" } from 'es-toolkit/compat'")
    ELSE Chars("import { ") \o actualNamedImportName \o Chars(" as ")
             \o customNamedImportName \o Chars(" } from 'es-toolkit/compat'")

\* (match, customNamedImportName, actualNamedImportName) => ...
DefaultSingleImportCallback(match, customNamedImportName, actualNamedImportName) ==
    IF isUnsupportedFunction(actualNamedImportName)
    THEN Replacement(match, <<Warn("single", <<actualNamedImportName>>)>>)
    ELSE Replacement(SingleImportText(customNamedImportName, actualNamedImportName), <<>>)

---------------------------------------------------------------------------
(* String.prototype.replace with a global regular expression and a callback: *)
(* matches are taken left to right without overlap, the text between them is *)
(* copied, and a callback that throws ends the whole replace.                *)

\* the text before a match, the callback's value for it, and the rest
Replaced(before, r, rest) ==
    IF r.error THEN r
    ELSE [code |-> before \o r.code \o rest.code,
          warns |-> r.warns \o rest.warns,
          error |-> rest.error]

RECURSIVE ReplaceDefaultImportsFrom(_, _, _)
ReplaceDefaultImportsFrom(s, i, starts) ==
    LET j == FirstFrom(starts, i)
    IN  IF j = 0 THEN Replacement(SubSeq(s, i, Len(s)), <<>>)
        ELSE LET m == defaultImportRegex(s, j)
             IN  Replaced(SubSeq(s, i, j - 1),
                          DefaultImportCallback(s, SubSeq(s, j, m.next - 1),
                                                m.defaultImportName),
                          ReplaceDefaultImportsFrom(s, m.next, starts))

\* srcWithReplacedImports.replace(defaultImportRegex, ...)
ReplaceDefaultImports(s) ==
    ReplaceDefaultImportsFrom(s, 1, {j \in 1..Len(s) : defaultImportRegex(s, j).ok})

RECURSIVE ReplaceNamedImportsFrom(_, _, _)
ReplaceNamedImportsFrom(s, i, starts) ==
    LET j == FirstFrom(starts, i)
    IN  IF j = 0 THEN Replacement(SubSeq(s, i, Len(s)), <<>>)
        ELSE LET m == namedImportsRegex(s, j)
             IN  Replaced(SubSeq(s, i, j - 1),
                          NamedImportsCallback(SubSeq(s, j, m.next - 1),
                                               m.rawNamedImportNames),
                          ReplaceNamedImportsFrom(s, m.next, starts))

\* srcWithReplacedImports.replace(namedImportsRegex, ...)
ReplaceNamedImports(s) ==
    ReplaceNamedImportsFrom(s, 1, {j \in 1..Len(s) : namedImportsRegex(s, j).ok})

RECURSIVE ReplaceDefaultSingleImportsFrom(_, _, _)
ReplaceDefaultSingleImportsFrom(s, i, starts) ==
    LET j == FirstFrom(starts, i)
    IN  IF j = 0 THEN Replacement(SubSeq(s, i, Len(s)), <<>>)
        ELSE LET m == defaultSingleImportRegex(s, j)
             IN  Replaced(SubSeq(s, i, j - 1),
                          DefaultSingleImportCallback(SubSeq(s, j, m.next - 1),
                              m.customNamedImportName, m.actualNamedImportName),
                          ReplaceDefaultSingleImportsFrom(s, m.next, starts))

\* srcWithReplacedImports.replace(defaultSingleImportRegex, ...)
ReplaceDefaultSingleImports(s) ==
    ReplaceDefaultSingleImportsFrom(s, 1,
        {j \in 1..Len(s) : defaultSingleImportRegex(s, j).ok})

---------------------------------------------------------------------------
(* The files handed to transform.  A file is a sequence of lines, one        *)
(* statement a line, each closed by ";" and a line feed; `input` keeps the    *)
(* structure the text was built from.                                        *)

\* lines of a file built from CoreLines
MaxLines == 3
\* tokens of a generated named-import list
MaxTokens == 3
\* fragments of a generated raw named-import list
MaxFragments == 4
\* characters of a generated identifier (parser specification)
MaxNameLen == 3

Default(name) == [shape |-> "default", name |-> name]
Usage(name, fns) == [shape |-> "usage", name |-> name, fns |-> fns]
Tok(actual, custom, as) == [actual |-> actual, custom |-> custom, as |-> as]
Named(toks) == [shape |-> "named", toks |-> toks]
Single(name, fn, js, quote) ==
    [shape |-> "single", name |-> name, fn |-> fn, js |-> js, quote |-> quote]
Text(text) == [shape |-> "text", text |-> text]
RawNamed(raw) == [shape |-> "rawnamed", raw |-> raw]

\* `actual` or `actual as custom`, as written in the file
TokenText(t) ==
    IF t.as THEN Chars(t.actual) \o Chars(" as ") \o Chars(t.custom) ELSE Chars(t.actual)

CallText(name, fn) == Chars(name) \o Chars(".") \o Chars(fn) \o Chars("(1, 1)")

LineText(l) ==
    CASE l.shape = "default" ->
            Chars("import ") \o Chars(l.name) \o Chars(" from 'lodash'")
      [] l.shape = "usage" ->
            Join([k \in 1..Len(l.fns) |-> CallText(l.name, l.fns[k])], Chars("; "))
      [] l.shape = "named" ->
            Chars("import { ") \o Join([k \in 1..Len(l.toks) |-> TokenText(l.toks[k])], Chars(", "))
                \o Chars(" } from 'lodash'")
      [] l.shape = "single" ->
            Chars("import ") \o Chars(l.name) \o Chars(" from ") \o <<l.quote>>
                \o Chars("lodash/") \o Chars(l.fn)
                \o (IF l.js THEN Chars(".js") ELSE <<>>) \o <<l.quote>>
      [] l.shape = "text" -> Chars(l.text)
      [] l.shape = "rawnamed" ->
            Chars("import {") \o Chars(l.raw) \o Chars("} from \"lodash\"")

RECURSIVE FileText(_)
FileText(lines) ==
    IF lines = <<>> THEN <<>>
    ELSE LineText(Head(lines)) \o Chars(";\n") \o FileText(Tail(lines))

SeqsUpTo(S, n) == UNION { [1..k -> S] : k \in 1..n }

CoreLines ==
    { Default("_"),
      Default("lodash"),
      Usage("_", <<"isEqual">>),
      Usage("_", <<"every", "map", "unknownFn">>),
      Usage("lodash", <<"pick">>),
      Named(<<Tok("isEqual", "isEqual", FALSE), Tok("every", "every", FALSE)>>),
      Named(<<Tok("map", "m", TRUE)>>),
      Single("lodashIsEqual", "isEqual", FALSE, "'"),
      Text("const x = 1"),
      Text("// lodash") }

NamedTokens ==
    { Tok("isEqual", "isEqual", FALSE),
      Tok("every", "every", FALSE),
      Tok("map", "m", TRUE),
      Tok("every", "e", TRUE),
      Tok("pick", "pick", TRUE) }

NamedLines == { Named(toks) : toks \in SeqsUpTo(NamedTokens, MaxTokens) }

SingleLines ==
    { Single(name, fn, js, quote) :
        name \in {"isEqual", "lodashIsEqual", "every"}, fn \in {"isEqual", "every"},
        js \in BOOLEAN, quote \in QuoteChar }

RECURSIVE Concat(_)
Concat(ss) == IF ss = <<>> THEN "" ELSE Head(ss) \o Concat(Tail(ss))

RawFragments == {"map", " as ", ",", " ", "\n"}

RawNamedLines ==
    { RawNamed(Concat(fs)) : fs \in SeqsUpTo(RawFragments, MaxFragments) }

Files ==
    SeqsUpTo(CoreLines, MaxLines)
        \cup { <<l>> : l \in NamedLines \cup SingleLines \cup RawNamedLines }

---------------------------------------------------------------------------
(* transform *)

Pending == [kind |-> "pending"]
Undefined == [kind |-> "undefined"]
Thrown == [kind |-> "throw", message |-> InvalidNamedImport.error]
Result(code) == [kind |-> "object", code |-> code, map |-> "null"]

ParserIdle ==
    /\ token = <<>>
    /\ stage = "off"
    /\ parsed = <<>>
    /\ rendered = <<>>

Init ==
    /\ input \in Files
    /\ src = FileText(input)
    /\ srcWithReplacedImports = <<>>
    /\ pc = "call"
    /\ warnings = <<>>
    /\ passes = <<>>
    /\ result = Pending
    /\ run = 1
    /\ ParserIdle

parserVars == <<token, stage, parsed, rendered>>

PrecheckAlways(s) == TRUE

\* src.includes('lodash')
Precheck(s) == Includes(s, Chars("lodash"))

\* line 78-79, and the implicit `return undefined` of line 202
Call ==
    /\ pc = "call"
    /\ IF Precheck(src)
       THEN /\ srcWithReplacedImports' = src
            /\ pc' = "defaultImport"
            /\ result' = result
       ELSE /\ srcWithReplacedImports' = srcWithReplacedImports
            /\ pc' = "returned"
            /\ result' = Undefined
    /\ UNCHANGED <<input, src, warnings, passes, run, parserVars>>

\* lines 92-117
DefaultImportPass ==
    /\ pc = "defaultImport"
    /\ LET r == ReplaceDefaultImports(srcWithReplacedImports)
       IN  /\ srcWithReplacedImports' = r.code
           /\ warnings' = warnings \o r.warns
    /\ passes' = Append(passes, "default")
    /\ pc' = "namedImports"
    /\ UNCHANGED <<input, src, result, run, parserVars>>

\* lines 131-161; an error thrown by parseNamedImport is caught nowhere
NamedImportsPass ==
    /\ pc = "namedImports"
    /\ LET r == ReplaceNamedImports(srcWithReplacedImports)
       IN  /\ warnings' = warnings \o r.warns
           /\ IF r.error
              THEN /\ srcWithReplacedImports' = srcWithReplacedImports
                   /\ result' = Thrown
                   /\ pc' = "returned"
              ELSE /\ srcWithReplacedImports' = r.code
                   /\ result' = result
                   /\ pc' = "defaultSingleImport"
    /\ passes' = Append(passes, "named")
    /\ UNCHANGED <<input, src, run, parserVars>>

\* lines 180-195
DefaultSingleImportPass ==
    /\ pc = "defaultSingleImport"
    /\ LET r == ReplaceDefaultSingleImports(srcWithReplacedImports)
       IN  /\ srcWithReplacedImports' = r.code
           /\ warnings' = warnings \o r.warns
    /\ passes' = Append(passes, "single")
    /\ pc' = "return"
    /\ UNCHANGED <<input, src, result, run, parserVars>>

\* lines 197-200
Return ==
    /\ pc = "return"
    /\ result' = Result(srcWithReplacedImports)
    /\ pc' = "returned"
    /\ UNCHANGED <<input, src, srcWithReplacedImports, warnings, passes, run, parserVars>>

\* the build calls transform again, on the code the first call returned
CallAgain ==
    /\ pc = "returned"
    /\ run = 1
    /\ result.kind = "object"
    /\ src' = result.code
    /\ srcWithReplacedImports' = <<>>
    /\ pc' = "call"
    /\ warnings' = <<>>
    /\ passes' = <<>>
    /\ result' = Pending
    /\ run' = 2
    /\ UNCHANGED <<input, parserVars>>

Next ==
    \/ Call
    \/ DefaultImportPass
    \/ NamedImportsPass
    \/ DefaultSingleImportPass
    \/ Return
    \/ CallAgain

Spec == Init /\ [][Next]_vars

---------------------------------------------------------------------------
(* The parser specification: parseNamedImport, renderNamedImport and the      *)
(* part of the named-list callback that follows the split (lines 140-159),    *)
(* applied to generated tokens.  `input` keeps how the token was built.       *)

NameChars == {"a", "s"}

Names == SeqsUpTo(NameChars, MaxNameLen)

Plain(x) == [form |-> "plain", x |-> x, y |-> <<>>]
Rename(x, y) == [form |-> "rename", x |-> x, y |-> y]
NoLeft(y) == [form |-> "noleft", x |-> <<>>, y |-> y]
NoRight(x) == [form |-> "noright", x |-> x, y |-> <<>>]
Empty == [form |-> "empty", x |-> <<>>, y |-> <<>>]

TokenForms ==
    { Plain(x) : x \in Names } \cup { Rename(x, y) : x \in Names, y \in Names }
        \cup { NoLeft(y) : y \in Names } \cup { NoRight(x) : x \in Names } \cup { Empty }

FormText(f) ==
    CASE f.form = "plain" -> f.x
      [] f.form = "rename" -> f.x \o Chars(" as ") \o f.y
      [] f.form = "noleft" -> Chars(" as ") \o f.y
      [] f.form = "noright" -> f.x \o Chars(" as ")
      [] f.form = "empty" -> <<>>

TransformIdle ==
    /\ src = <<>>
    /\ srcWithReplacedImports = <<>>
    /\ pc = "off"
    /\ warnings = <<>>
    /\ passes = <<>>
    /\ result = Pending
    /\ run = 1

InitParser ==
    /\ input \in TokenForms
    /\ token = FormText(input)
    /\ stage = "token"
    /\ parsed = <<>>
    /\ rendered = <<>>
    /\ TransformIdle

transformVars == <<src, srcWithReplacedImports, pc, warnings, passes, result, run>>

\* parseNamedImport(token)
Parse ==
    /\ stage = "token"
    /\ parsed' = parseNamedImport(token)
    /\ stage' = "parsed"
    /\ UNCHANGED <<input, token, rendered, transformVars>>

\* renderNamedImport(parsed)
Render ==
    /\ stage = "parsed"
    /\ ~IsError(parsed)
    /\ rendered' = renderNamedImport(parsed)
    /\ stage' = "rendered"
    /\ UNCHANGED <<input, token, parsed, transformVars>>

\* lines 140-159 on the one-token list, for the statement that holds the token
Handle ==
    /\ stage = "token"
    /\ rendered' = RewriteNamedImports(
                       Chars("import { ") \o token \o Chars(" } from 'lodash'"), <<token>>)
    /\ stage' = "handled"
    /\ UNCHANGED <<input, token, parsed, transformVars>>

NextParser ==
    \/ Parse
    \/ Render
    \/ Handle

SpecParser == InitParser /\ [][NextParser]_vars

---------------------------------------------------------------------------
(* Properties of the parser and renderer (checked under SpecParser)          *)

\* C7, as stated: parseNamedImport then renderNamedImport gives back the token,
\* for every token `X` and for every token `X as Y`, X = Y included.
C7_RoundTripIdentity ==
    (stage = "rendered" /\ input.form \in {"plain", "rename"}) => rendered = token

\* C7, amended: parseNamedImport then renderNamedImport gives back the token
\* for every token `X` and for every token `X as Y` with X # Y; a token
\* `X as X` is rendered as `X` alone.
C7_RoundTrip ==
    stage = "rendered" =>
        /\ input.form = "plain" => rendered = token
        /\ (input.form = "rename" /\ input.x # input.y) => rendered = token
        /\ (input.form = "rename" /\ input.x = input.y) => rendered = input.x

C7_Witness ==
    /\ stage = "rendered"
    /\ input.form = "rename"
    /\ input.x # input.y
    /\ rendered = input.x \o <<" ", "a", "s", " ">> \o input.y

\* the text of the token before its first " as " is empty
LeftSideEmpty(t) ==
    \/ t = <<>>
    \/ Len(t) >= 4 /\ t[1] = " " /\ t[2] = "a" /\ t[3] = "s" /\ t[4] = " "

\* C9: parseNamedImport fails with `Invalid named import` exactly when the text
\* before the first " as " is empty; the list handler that meets the failure
\* fails as a whole, giving no replacement text and no warning, and otherwise
\* gives a replacement.
C9_ParseFailsOnEmptyLeft ==
    /\ stage \in {"parsed", "rendered"} =>
        /\ IsError(parsed) <=> LeftSideEmpty(token)
        /\ IsError(parsed) => parsed.error = "Invalid named import"
    /\ stage = "handled" =>
        /\ rendered.error <=> LeftSideEmpty(token)
        /\ rendered.error => (rendered.code = <<>> /\ rendered.warns = <<>>)
        /\ ~rendered.error => rendered.code # <<>>

C9_Witness ==
    /\ stage = "handled"
    /\ input.form = "noleft"
    /\ rendered.error

---------------------------------------------------------------------------
(* Properties of transform (checked under Spec).  They are stated over the    *)
(* structure of the file (`input`) and the lines of the returned code; a line *)
(* of the file is a line of the code because no rewrite adds or removes a     *)
(* line feed.                                                                *)

\* the first call has returned code
Returned1 == pc = "returned" /\ run = 1 /\ result.kind = "object"

OutLines == Split(result.code, <<"\n">>)

InLine(i) == LineText(input[i]) \o <<";">>

LinesOf(shape) == { i \in 1..Len(input) : input[i].shape = shape }

Supported(name) == Chars(name) \in supportedFunctions

IsSupportedTok(t) == Supported(t.actual)
IsUnsupportedTok(t) == ~Supported(t.actual)
IsUnsupportedName(name) == ~Supported(name)

\* the names of the warnings a pass made, in order
WarnedBy(pass) ==
    LET ws == SelectSeq(warnings, LAMBDA w : w.pass = pass)
    IN  [k \in 1..Len(ws) |-> ws[k].names]

CharsOfAll(names) == [k \in 1..Len(names) |-> Chars(names[k])]

\* a binding as the import list shows it: `X`, or `X as Y` when Y differs
TokenShown(t) ==
    IF t.actual = t.custom THEN Chars(t.actual)
    ELSE Chars(t.actual) \o <<" ">> \o Chars("as") \o <<" ">> \o Chars(t.custom)

ListShown(toks) == Join([k \in 1..Len(toks) |-> TokenShown(toks[k])], Chars(", "))

FromCompat(list) == Chars("import { ") \o list \o Chars(" } from 'es-toolkit/compat'")
FromLodash(list) == Chars("import { ") \o list \o Chars(" } from 'lodash'")

NoRawLists == LinesOf("rawnamed") = {}

ExpectedNamedLine(l) ==
    LET sup == SelectSeq(l.toks, IsSupportedTok)
        uns == SelectSeq(l.toks, IsUnsupportedTok)
    IN  IF uns = <<>> THEN FromCompat(ListShown(l.toks))
        ELSE IF sup = <<>> THEN LineText(l)
        ELSE FromCompat(ListShown(sup)) \o <<";">> \o FromLodash(ListShown(uns))

ExpectedNamedWarnings ==
    LET warned == SelectSeq(input,
                      LAMBDA l : l.shape = "named" /\ SelectSeq(l.toks, IsUnsupportedTok) # <<>>)
    IN  [k \in 1..Len(warned) |->
            LET uns == SelectSeq(warned[k].toks, IsUnsupportedTok)
            IN  [j \in 1..Len(uns) |-> Chars(uns[j].actual)]]

RECURSIVE UsedThrough(_, _)
UsedThrough(name, lines) ==
    IF lines = <<>> THEN <<>>
    ELSE (IF Head(lines).shape = "usage" /\ Head(lines).name = name
          THEN Head(lines).fns ELSE <<>>) \o UsedThrough(name, Tail(lines))

UnsupportedThrough(name) == SelectSeq(UsedThrough(name, input), IsUnsupportedName)

ExpectedDefaultWarnings ==
    LET warned == SelectSeq(input,
                      LAMBDA l : l.shape = "default" /\ UnsupportedThrough(l.name) # <<>>)
    IN  [k \in 1..Len(warned) |-> CharsOfAll(UnsupportedThrough(warned[k].name))]

\* C2: a namespace import whose binding is not used, or is used for at least
\* one unsupported function, is left as it is; the pass warns once for each
\* import of the second kind, naming the unsupported functions used through
\* the binding and no others, and does not warn for any other import.
C2_NamespaceAllOrNothing ==
    Returned1 =>
        /\ \A i \in LinesOf("default") :
               (\/ UsedThrough(input[i].name, input) = <<>>
                \/ UnsupportedThrough(input[i].name) # <<>>)
               => OutLines[i] = InLine(i)
        /\ WarnedBy("default") = ExpectedDefaultWarnings

C2_Witness ==
    /\ Returned1
    /\ \E i \in LinesOf("default") :
           /\ Len(UnsupportedThrough(input[i].name)) >= 2
           /\ Len(UsedThrough(input[i].name, input)) > Len(UnsupportedThrough(input[i].name))
           /\ OutLines[i] = InLine(i)
    /\ Len(WarnedBy("default")) = 1

\* C3: a namespace import whose binding is used, and only for supported
\* functions, becomes `import * as <Name> from 'es-toolkit/compat'`, without a
\* warning for it, and the other lines stay as they are.
C3_NamespaceRewritten ==
    Returned1 =>
        \A i \in LinesOf("default") :
            (/\ UsedThrough(input[i].name, input) # <<>>
             /\ UnsupportedThrough(input[i].name) = <<>>)
            => /\ OutLines[i] = Chars("import * as ") \o Chars(input[i].name)
                                    \o Chars(" from 'es-toolkit/compat';")
               /\ WarnedBy("default") = ExpectedDefaultWarnings
               /\ \A j \in LinesOf("usage") \cup LinesOf("text") : OutLines[j] = InLine(j)

ExpectedSingleLine(l) ==
    IF ~Supported(l.fn) THEN LineText(l)
    ELSE IF l.name = l.fn THEN FromCompat(Chars(l.fn))
    ELSE FromCompat(Chars(l.fn) \o <<" ">> \o Chars("as") \o <<" ">> \o Chars(l.name))

ExpectedSingleWarnings ==
    LET warned == SelectSeq(input, LAMBDA l : l.shape = "single" /\ ~Supported(l.fn))
    IN  [k \in 1..Len(warned) |-> <<Chars(warned[k].fn)>>]

\* C4: `import <Name> from 'lodash/<symbol>'`, with or without `.js`, is left
\* as it is with one warning naming <symbol> when <symbol> is unsupported;
\* otherwise it becomes `import { <symbol> } from 'es-toolkit/compat'` when
\* <Name> is <symbol> and `import { <symbol> as <Name> } from
\* 'es-toolkit/compat'` when it is not, without a warning.
C4_SingleFunctionRewrite ==
    Returned1 =>
        /\ \A i \in LinesOf("single") :
               OutLines[i] = ExpectedSingleLine(input[i]) \o <<";">>
        /\ WarnedBy("single") = ExpectedSingleWarnings

C4_Witness ==
    /\ Returned1
    /\ \E i \in LinesOf("single") :
           /\ input[i].js
           /\ input[i].name # input[i].fn
           /\ Supported(input[i].fn)
           /\ OutLines[i] # InLine(i)


\* the text holds the six characters l o d a s h in a row
ContainsLodash(s) ==
    \E i \in 1..Len(s) :
        /\ i + 5 <= Len(s)
        /\ <<s[i], s[i + 1], s[i + 2], s[i + 3], s[i + 4], s[i + 5]>>
               = <<"l", "o", "d", "a", "s", "h">>

\* C5: a call returns undefined exactly when its text does not contain
\* `lodash`, and has then run no pass and warned of nothing; on a text that
\* contains `lodash` it runs the three passes in order and returns
\* {code, map: null}, with code equal to the text when no import shape is in it.
C5_ReturnContract ==
    pc = "returned" =>
        /\ result = Undefined <=> ~ContainsLodash(src)
        /\ result = Undefined => (warnings = <<>> /\ passes = <<>>)
        /\ ContainsLodash(src) =>
               /\ result.kind = "object"
               /\ result.map = "null"
               /\ passes = <<"default", "named", "single">>
        /\ (/\ ContainsLodash(src)
            /\ run = 1
            /\ \A i \in 1..Len(input) : input[i].shape \in {"text", "usage"})
           => result.code = src

C5_Witness ==
    /\ pc = "returned"
    /\ run = 1
    /\ \A i \in 1..Len(input) : input[i].shape = "text"
    /\ ContainsLodash(src)
    /\ result.kind = "object"
    /\ result.code = src

NameHasLodash(name) == ContainsLodash(Chars(name))

\* every function the line's import refers to is supported
OnlySupported(l) ==
    CASE l.shape = "default" -> UnsupportedThrough(l.name) = <<>>
      [] l.shape = "named" -> SelectSeq(l.toks, IsUnsupportedTok) = <<>>
      [] l.shape = "single" -> Supported(l.fn)
      [] l.shape = "usage" -> TRUE
      [] l.shape = "text" -> ~NameHasLodash(l.text)
      [] l.shape = "rawnamed" -> FALSE

\* `lodash` is in the line only as the module an import names, and a
\* namespace binding is used
LodashOnlyAsModule(l) ==
    CASE l.shape = "default" -> ~NameHasLodash(l.name) /\ UsedThrough(l.name, input) # <<>>
      [] l.shape = "named" ->
            \A k \in 1..Len(l.toks) :
                ~NameHasLodash(l.toks[k].actual) /\ ~NameHasLodash(l.toks[k].custom)
      [] l.shape = "single" -> ~NameHasLodash(l.name) /\ ~NameHasLodash(l.fn)
      [] l.shape = "usage" ->
            ~NameHasLodash(l.name) /\ \A k \in 1..Len(l.fns) : ~NameHasLodash(l.fns[k])
      [] l.shape = "text" -> ~NameHasLodash(l.text)
      [] l.shape = "rawnamed" -> FALSE

\* C6, as stated: when the lodash imports of a file refer to supported
\* functions only (and no other text of it mentions lodash), the returned code
\* does not contain `lodash`.
C6_NoLodashWhenAllSupported ==
    (Returned1 /\ \A i \in 1..Len(input) : OnlySupported(input[i]))
        => ~ContainsLodash(result.code)

\* C6, amended: when the lodash imports of a file refer to supported functions
\* only, every namespace binding is used, and `lodash` occurs in the file only
\* as the module the imports name (no binding such as lodashIsEqual, no other
\* text), the returned code does not contain `lodash`, and transform called on
\* that code returns undefined.
C6_Idempotence ==
    (\A i \in 1..Len(input) : OnlySupported(input[i]) /\ LodashOnlyAsModule(input[i])) =>
        /\ Returned1 => ~ContainsLodash(result.code)
        /\ (run = 2 /\ pc = "returned") => result = Undefined

C6_Witness ==
    /\ run = 2
    /\ pc = "returned"
    /\ result = Undefined
    /\ \A i \in 1..Len(input) : OnlySupported(input[i]) /\ LodashOnlyAsModule(input[i])
    /\ LinesOf("default") # {}

\* the tokens at the positions in I, in their order
RECURSIVE Picked(_, _, _)
Picked(toks, I, k) ==
    IF k > Len(toks) THEN <<>>
    ELSE (IF k \in I THEN <<toks[k]>> ELSE <<>>) \o Picked(toks, I, k + 1)

Rewritten(l) ==
    \/ SelectSeq(l.toks, IsSupportedTok) # <<>>
    \/ SelectSeq(l.toks, IsUnsupportedTok) = <<>>

\* C8: the statements that replace a named-list import hold every binding of
\* the list exactly once, in one list or the other, and each list keeps the
\* order the bindings had; a list whose names are all supported is emitted
\* whole and in order.
C8_OrderAndCompleteness ==
    (Returned1 /\ NoRawLists) =>
        \A i \in LinesOf("named") :
            Rewritten(input[i]) =>
                LET toks == input[i].toks
                    all == 1..Len(toks)
                IN  /\ \E I \in SUBSET all :
                           OutLines[i] =
                               FromCompat(ListShown(Picked(toks, I, 1)))
                                   \o (IF I = all THEN <<>>
                                       ELSE <<";">> \o FromLodash(
                                                ListShown(Picked(toks, all \ I, 1))))
                                   \o <<";">>
                    /\ (\A k \in all : Supported(toks[k].actual)) =>
                           OutLines[i] = FromCompat(ListShown(toks)) \o <<";">>

C8_Witness ==
    /\ Returned1
    /\ \E i \in LinesOf("named") :
           /\ Len(input[i].toks) >= 2
           /\ input[i].toks[1] # input[i].toks[2]
           /\ \A k \in 1..Len(input[i].toks) : Supported(input[i].toks[k].actual)
           /\ OutLines[i] = FromCompat(ListShown(input[i].toks)) \o <<";">>

\* the raw list of a generated named-import line
RawListOf(l) ==
    IF l.shape = "rawnamed" THEN Chars(l.raw)
    ELSE Join([k \in 1..Len(l.toks) |-> TokenText(l.toks[k])], Chars(", "))

\* C10: transform never throws.  Every name the named-list callback hands to
\* parseNamedImport is non-empty and starts with no blank, so parseNamedImport
\* does not fail on it, and every call ends with undefined or with a result
\* object.
C10_NeverThrows ==
    /\ result # Thrown
    /\ pc = "returned" => result.kind \in {"undefined", "object"}
    /\ \A i \in LinesOf("rawnamed") \cup LinesOf("named") :
           LET names == NamedImportNames(RawListOf(input[i]))
           IN  \A k \in 1..Len(names) :
                   /\ names[k] # <<>>
                   /\ names[k][1] \notin SpaceChar
                   /\ ~IsError(parseNamedImport(names[k]))

C10_Witness ==
    /\ Returned1
    /\ \E i \in LinesOf("rawnamed") :
           /\ input[i].raw = ", as map"
           /\ OutLines[i] = InLine(i)
    /\ Len(WarnedBy("named")) = 1

====
